---- MODULE Spec2Model ----
(***************************************************************************)
(* Model of the SMIRT user manager (src/js/user-manager.js): the user      *)
(* registry, its persistence in localStorage, credential checking, and the *)
(* single sliding-expiration session.                                      *)
(*                                                                         *)
(* JavaScript objects are functions from the names of their own fields to  *)
(* values, so that object spread and JSON serialisation act on the set of  *)
(* fields.  A Map is a sequence of key/value entries in insertion order.   *)
(* An optional value (null or an object) is a sequence of length 0 or 1.   *)
(***************************************************************************)
EXTENDS Integers, Sequences, FiniteSets, TLC

(***************************************************************************)
(* Bounds of the model.                                                    *)
(***************************************************************************)
\* number of clock advances explored
MaxTicks == 3

(***************************************************************************)
(* Program constants.                                                      *)
(***************************************************************************)
sessionDuration == 24 * 60 * 60 * 1000

\* the clock advances by half a session duration at a time
TickStep == sessionDuration \div 2

\* usernames, passwords and roles the callers use
Usernames == {"admin", "mario"}
Passwords == {"2977", "pw"}
Roles == {"admin", "tecnico"}

DisplayNameOf(u) == IF u = "admin" THEN "Amministratore" ELSE "Mario Rossi"

(***************************************************************************)
(* JavaScript values.                                                      *)
(***************************************************************************)
Undefined == "undefined"

\* o.f : the value of a field, undefined when the object has no such field
Get(o, f) == IF f \in DOMAIN o THEN o[f] ELSE Undefined

\* { ...a, ...b } : the fields of both, those of b winning
Spread(a, b) ==
    [f \in (DOMAIN a) \cup (DOMAIN b) |-> IF f \in DOMAIN b THEN b[f] ELSE a[f]]

\* the JSON value null inside an array or a mapping
JsNull == [jsnull |-> TRUE]

IsNull(v) == "jsnull" \in DOMAIN v

\* new Date().toISOString() at clock value t
ISO(t) == ToString(t)

(***************************************************************************)
(* Map operations on a sequence of entries [k |-> key, v |-> value].       *)
(***************************************************************************)
MapHas(m, key) == \E i \in 1..Len(m) : m[i].k = key

MapIndex(m, key) == CHOOSE i \in 1..Len(m) : m[i].k = key

\* Map.get as an optional value
MapGet(m, key) == IF MapHas(m, key) THEN <<m[MapIndex(m, key)].v>> ELSE <<>>

\* Map.set: an existing key keeps its position, a new key is appended
MapSet(m, key, val) ==
    IF MapHas(m, key)
    THEN [m EXCEPT ![MapIndex(m, key)] = [k |-> key, v |-> val]]
    ELSE Append(m, [k |-> key, v |-> val])

\* Array.from(map.values())
MapValues(m) == [i \in 1..Len(m) |-> m[i].v]

MapKeys(m) == {m[i].k : i \in 1..Len(m)}

(***************************************************************************)
(* localStorage entries.  An entry is absent (<<>>) or holds one string;   *)
(* a string is modelled by what JSON.parse makes of it.                    *)
(***************************************************************************)
\* JSON.stringify of an array of objects
JSONStringify(arr) == [kind |-> "array", items |-> arr]

CorruptText == [kind |-> "corrupt", items |-> <<>>]
EmptyText == [kind |-> "empty", items |-> <<>>]
NullText == [kind |-> "null", items |-> <<>>]

\* JSON.parse throws a SyntaxError on this text
ParseThrows(text) == text.kind \in {"corrupt", "empty"}

\* a string is falsy only when it is empty
Falsy(entry) == entry = <<>> \/ entry[1].kind = "empty"

(***************************************************************************)
(* State.                                                                  *)
(***************************************************************************)
VARIABLES
    users,          \* this.users: the registry, a Map from username to record
    currentUser,    \* this.currentUser: the cached session, <<>> for null
    usersStore,     \* localStorage entry 'smirt_users'
    sessionStore,   \* localStorage entry 'smirt_session'
    now,            \* Date.now()
    loadPc,         \* position of the one loadUsers() call in flight
    storageFaulty,  \* whether localStorage.setItem may throw
    sessionRead,    \* the entry read by a getCurrentUser() call that has not
                    \* yet written, <<>> when no such call is in progress
    window,         \* the JSONP callbacks installed as properties of window
    requests,       \* the createJSONPRequest calls made, in order
    result          \* the last call made and what it returned

vars == <<users, currentUser, usersStore, sessionStore, now, loadPc,
          storageFaulty, sessionRead, window, requests, result>>

\* the calls in flight outside the UserManager methods that run to completion
inFlight == <<sessionRead, window, requests>>

\* a call, what it returned (a tag: the message of a failure) and its payload:
\* the object returned; for loadUsers the console message is the second
\* argument, for isSessionValid the payload is the persisted entry it read
Ret(op, arg, ret, val) == [op |-> op, arg |-> arg, ret |-> ret, val |-> val]

\* the outcomes of localStorage.setItem: TRUE when the write is done
WriteOutcomes == IF storageFaulty THEN {TRUE, FALSE} ELSE {TRUE}

(***************************************************************************)
(* saveUsers and initializeDefaultUsers.                                   *)
(***************************************************************************)
\* the value of 'smirt_users' after saveUsers() on registry m
saveUsers(m, written) ==
    IF written THEN <<JSONStringify(MapValues(m))>> ELSE usersStore

defaultUsers ==
    << [username |-> "admin", password |-> "2977",
        displayName |-> "Amministratore", role |-> "admin",
        active |-> TRUE, createdAt |-> ISO(now)] >>

\* users.set(user.username, user) for each element of arr, in order
RECURSIVE SetEach(_, _)
SetEach(m, arr) ==
    IF arr = <<>> THEN m
    ELSE SetEach(MapSet(m, Get(Head(arr), "username"), Head(arr)), Tail(arr))

\* initializeDefaultUsers without its saveUsers() call
initializeDefaultUsersMut(written) ==
    [users |-> SetEach(<<>>, defaultUsers), store |-> usersStore]

\* the registry and the persisted snapshot after initializeDefaultUsers()
initializeDefaultUsers(written) ==
    LET m == SetEach(<<>>, defaultUsers)
    IN  [users |-> m, store |-> saveUsers(m, written)]

\* what loadUsers leaves, and the console message of the branch it took
Loaded(r, log) == [users |-> r.users, store |-> r.store, log |-> log]

(***************************************************************************)
(* loadUsers.                                                              *)
(***************************************************************************)
\* reading a property of a null array element throws a TypeError
ForEachThrows(arr) == \E i \in 1..Len(arr) : IsNull(arr[i])

\* the second try block: the persisted snapshot, or the default users
loadFromStorage(written) ==
    IF Falsy(usersStore)
    THEN Loaded(initializeDefaultUsers(written), "localStorage vuoto")
    ELSE IF ParseThrows(usersStore[1])
    THEN Loaded(initializeDefaultUsers(written), "Errore caricamento utenti")
    ELSE IF usersStore[1].kind # "array"
    THEN Loaded(initializeDefaultUsers(written), "Errore caricamento utenti")
    ELSE IF ForEachThrows(usersStore[1].items)
    THEN Loaded(initializeDefaultUsers(written), "Errore caricamento utenti")
    ELSE LET m == SetEach(<<>>, usersStore[1].items)
         IN  IF Len(m) = 0
             THEN Loaded(initializeDefaultUsers(written), "Nessun utente trovato")
             ELSE Loaded([users |-> m, store |-> usersStore],
                         "Utenti caricati da localStorage")

\* the record built from one entry of the users.json mapping
bootstrapUser(username, userData) ==
    [username |-> username,
     password |-> Get(userData, "password"),
     displayName |-> Get(userData, "displayName"),
     role |-> Get(userData, "role"),
     permissions |-> IF "permissions" \in DOMAIN userData
                     THEN userData.permissions ELSE <<>>,
     active |-> TRUE,
     createdAt |-> ISO(now)]

RECURSIVE SetEntries(_, _)
SetEntries(m, entries) ==
    IF entries = <<>> THEN m
    ELSE SetEntries(MapSet(m, Head(entries).username,
                           bootstrapUser(Head(entries).username, Head(entries).data)),
                    Tail(entries))

\* the bodies response.json() can resolve to
UserData(u, r) == [password |-> IF u = "admin" THEN "2977" ELSE "pw",
                   displayName |-> DisplayNameOf(u), role |-> r]

Entry(u, d) == [username |-> u, data |-> d]

Body(kind, entries) == [kind |-> kind, entries |-> entries]

BootstrapBodies ==
    { Body("null", <<>>),
      Body("nousers", <<>>),
      Body("users", <<>>),
      Body("users", <<Entry("admin", UserData("admin", "admin"))>>),
      Body("users", <<Entry("mario", UserData("mario", "tecnico"))>>),
      Body("users", <<Entry("admin", UserData("admin", "admin")),
                      Entry("mario", UserData("mario", "tecnico"))>>),
      Body("users", <<Entry("admin", UserData("admin", "admin")),
                      Entry("mario", JsNull)>>) }

\* data.users or one of its entries cannot be read: a TypeError is thrown
\* after this.users.clear()
BodyThrows(body) ==
    \/ body.kind # "users"
    \/ \E i \in 1..Len(body.entries) : IsNull(body.entries[i].data)

\* loadUsers() is called: it runs up to the await of fetch()
LoadUsersCall ==
    /\ loadPc = "idle"
    /\ loadPc' = "fetch"
    /\ result' = Ret("loadUsers.call", <<result.op>>, "pending", <<>>)
    /\ UNCHANGED <<users, currentUser, usersStore, sessionStore, now, storageFaulty, inFlight>>

\* the end of loadUsers() through the second try block
LoadFallback(how) ==
    \E written \in WriteOutcomes :
        LET r == loadFromStorage(written)
        IN  /\ users' = r.users
            /\ usersStore' = r.store
            /\ loadPc' = "idle"
            /\ result' = Ret("loadUsers", <<how, r.log>>, "done", <<>>)
            /\ UNCHANGED <<currentUser, sessionStore, now, storageFaulty, inFlight>>

\* a loadUsers that clears the registry before it awaits response.json()
LoadUsersFetchedMut(outcome) ==
    /\ loadPc = "fetch"
    /\ IF outcome = "ok"
       THEN /\ loadPc' = "json"
            /\ users' = <<>>
            /\ result' = Ret("loadUsers.fetched",
                             IF result.op = "loadUsers.call" THEN result.arg ELSE <<>>,
                             "pending", <<>>)
            /\ UNCHANGED <<currentUser, usersStore, sessionStore, now, storageFaulty, inFlight>>
       ELSE LoadFallback(outcome)

\* fetch() settles: rejected, a response that is not ok, or an ok response
LoadUsersFetched(outcome) ==
    /\ loadPc = "fetch"
    /\ IF outcome = "ok"
       THEN /\ loadPc' = "json"
            /\ result' = Ret("loadUsers.fetched",
                             IF result.op = "loadUsers.call" THEN result.arg ELSE <<>>,
                             "pending", <<>>)
            /\ UNCHANGED <<users, currentUser, usersStore, sessionStore, now,
                           storageFaulty, inFlight>>
       ELSE LoadFallback(outcome)

\* response.json() settles: rejected (malformed body) or resolved to a body
LoadUsersBody(rejected, body) ==
    /\ loadPc = "json"
    /\ IF rejected THEN LoadFallback("malformed")
       ELSE IF BodyThrows(body) THEN LoadFallback("typeerror")
       ELSE \E written \in WriteOutcomes :
               LET m == SetEntries(<<>>, body.entries)
               IN  /\ users' = m
                   /\ usersStore' = saveUsers(m, written)
                   /\ loadPc' = "idle"
                   /\ result' = Ret("loadUsers",
                                    <<"bootstrap", "Utenti caricati dal file users.json">>,
                                    "done", <<>>)
                   /\ UNCHANGED <<currentUser, sessionStore, now, storageFaulty, inFlight>>

\* saveUsers() called on its own
SaveUsers ==
    \E written \in WriteOutcomes :
        /\ usersStore' = saveUsers(users, written)
        /\ result' = Ret("saveUsers", <<>>, "done", <<>>)
        /\ UNCHANGED <<users, currentUser, sessionStore, now, loadPc, storageFaulty, inFlight>>

(***************************************************************************)
(* Sessions: authenticate, isSessionValid, getCurrentUser, logout.         *)
(***************************************************************************)
UserNotFound == "Utente non trovato"
UserInactive == "Utente disattivato"
InvalidCredential == "Password errata"
\* 'Utente gia esistente', written here without the accent of the source
DuplicateUser == "Utente gia esistente"
PermissionDenied == "Accesso negato"
WrongCurrentPassword == "Password attuale errata"

\* !user.active
NotActive(user) == ~("active" \in DOMAIN user /\ user.active = TRUE)

\* authenticate comparing the password before it looks at the active flag
authenticateOutcomeMut(username, password) ==
    LET user == MapGet(users, username)
    IN  IF user = <<>> THEN UserNotFound
        ELSE IF Get(user[1], "password") # password THEN InvalidCredential
        ELSE IF NotActive(user[1]) THEN UserInactive
        ELSE "ok"

\* the checks of authenticate, in the order of the code: the message of the
\* failure, or "ok"
authenticateOutcome(username, password) ==
    LET user == MapGet(users, username)
    IN  IF user = <<>> THEN UserNotFound
        ELSE IF NotActive(user[1]) THEN UserInactive
        ELSE IF Get(user[1], "password") # password THEN InvalidCredential
        ELSE "ok"

\* a session whose expiry is not counted from the current time
sessionDataMut(user) ==
    [username |-> Get(user, "username"),
     displayName |-> Get(user, "displayName"),
     role |-> Get(user, "role"),
     loginTime |-> now,
     expiresAt |-> sessionDuration]

\* the session created for a user record at the current time
sessionData(user) ==
    [username |-> Get(user, "username"),
     displayName |-> Get(user, "displayName"),
     role |-> Get(user, "role"),
     loginTime |-> now,
     expiresAt |-> now + sessionDuration]

\* a failed authenticate that drops the session there was
authenticateFailureMut == [cache |-> <<>>, store |-> <<>>]

\* the cached and persisted session after a failed authenticate
authenticateFailure == [cache |-> currentUser, store |-> sessionStore]

Authenticate(username, password) ==
    LET outcome == authenticateOutcome(username, password)
    IN  IF outcome # "ok"
        THEN /\ currentUser' = authenticateFailure.cache
             /\ sessionStore' = authenticateFailure.store
             /\ result' = Ret("authenticate", <<username, password>>, outcome, <<>>)
             /\ UNCHANGED <<users, usersStore, now, loadPc, storageFaulty, inFlight>>
        ELSE \E written \in WriteOutcomes :
               LET s == sessionData(MapGet(users, username)[1])
               IN  /\ currentUser' = <<s>>
                   /\ sessionStore' = IF written THEN <<s>> ELSE sessionStore
                   /\ result' = IF written
                                THEN Ret("authenticate", <<username, password>>, "ok", <<s>>)
                                ELSE Ret("authenticate", <<username, password>>, "throws", <<>>)
                   /\ UNCHANGED <<users, usersStore, now, loadPc, storageFaulty, inFlight>>

\* the expiry test with the comparison made non-strict
ExpiredMut(session) == now >= session.expiresAt

\* now > session.expiresAt
Expired(session) == now > session.expiresAt

\* an extension counted from the login time instead of the current time
ExtendedMut(session) ==
    [session EXCEPT !.expiresAt = session.loginTime + sessionDuration]

\* session.expiresAt = now + this.sessionDuration
Extended(session) == [session EXCEPT !.expiresAt = now + sessionDuration]

\* a logout that removes the persisted entry and keeps the cache
logoutMut == [cache |-> currentUser, store |-> <<>>]

\* the cached and persisted session after logout()
logout == [cache |-> <<>>, store |-> <<>>]

\* isSessionValid(): what it returns, and the cached and persisted session
\* it leaves
isSessionValid(written) ==
    IF sessionStore = <<>>
    THEN [valid |-> FALSE, cache |-> currentUser, store |-> sessionStore]
    ELSE IF Expired(sessionStore[1])
    THEN [valid |-> FALSE, cache |-> logout.cache, store |-> logout.store]
    ELSE IF written
    THEN [valid |-> TRUE, cache |-> <<Extended(sessionStore[1])>>,
          store |-> <<Extended(sessionStore[1])>>]
    ELSE [valid |-> FALSE, cache |-> currentUser, store |-> sessionStore]

Bool(b) == IF b THEN "true" ELSE "false"

IsSessionValid ==
    \E written \in WriteOutcomes :
        LET v == isSessionValid(written)
        IN  /\ currentUser' = v.cache
            /\ sessionStore' = v.store
            /\ result' = Ret("isSessionValid", <<>>, Bool(v.valid), sessionStore)
            /\ UNCHANGED <<users, usersStore, now, loadPc, storageFaulty, inFlight>>

\* a getCurrentUser that trusts the cache and skips the validity report
getCurrentUserMut(v) == currentUser

\* getCurrentUser(): the session it returns (<<>> for null)
getCurrentUser(v) == IF v.valid THEN v.cache ELSE <<>>

GetCurrentUser ==
    \E written \in WriteOutcomes :
        LET v == isSessionValid(written)
            cur == getCurrentUser(v)
        IN  /\ currentUser' = v.cache
            /\ sessionStore' = v.store
            /\ result' = Ret("getCurrentUser", <<>>,
                             IF cur = <<>> THEN "null" ELSE "session", cur)
            /\ UNCHANGED <<users, usersStore, now, loadPc, storageFaulty, inFlight>>

Logout ==
    /\ currentUser' = logout.cache
    /\ sessionStore' = logout.store
    /\ result' = Ret("logout", <<>>, "done", <<>>)
    /\ UNCHANGED <<users, usersStore, now, loadPc, storageFaulty, inFlight>>

\* hasRole(role): currentUser && currentUser.role === role
hasRole(cur, role) == cur # <<>> /\ cur[1].role = role

HasRole(role) ==
    \E written \in WriteOutcomes :
        LET v == isSessionValid(written)
        IN  /\ currentUser' = v.cache
            /\ sessionStore' = v.store
            /\ result' = Ret("hasRole", <<role>>,
                             Bool(hasRole(getCurrentUser(v), role)), <<>>)
            /\ UNCHANGED <<users, usersStore, now, loadPc, storageFaulty, inFlight>>

IsAdmin ==
    \E written \in WriteOutcomes :
        LET v == isSessionValid(written)
        IN  /\ currentUser' = v.cache
            /\ sessionStore' = v.store
            /\ result' = Ret("isAdmin", <<>>,
                             Bool(hasRole(getCurrentUser(v), "admin")), <<>>)
            /\ UNCHANGED <<users, usersStore, now, loadPc, storageFaulty, inFlight>>

\* cleanupSessions(): logout() unless isSessionValid()
CleanupSessions ==
    \E written \in WriteOutcomes :
        LET v == isSessionValid(written)
        IN  /\ currentUser' = IF v.valid THEN v.cache ELSE logout.cache
            /\ sessionStore' = IF v.valid THEN v.store ELSE logout.store
            /\ result' = Ret("cleanupSessions", <<>>, "done", <<>>)
            /\ UNCHANGED <<users, usersStore, now, loadPc, storageFaulty, inFlight>>

\* the entry getAllUsers returns for one record
redact(user) ==
    [username |-> Get(user, "username"),
     displayName |-> Get(user, "displayName"),
     role |-> Get(user, "role"),
     active |-> Get(user, "active"),
     createdAt |-> Get(user, "createdAt"),
     updatedAt |-> Get(user, "updatedAt")]

\* the gate of getAllUsers without the role test
accessDeniedMut(cur) == cur = <<>>

\* !currentUser || currentUser.role !== 'admin'
accessDenied(cur) == cur = <<>> \/ cur[1].role # "admin"

GetAllUsers ==
    \E written \in WriteOutcomes :
        LET v == isSessionValid(written)
            cur == getCurrentUser(v)
        IN  /\ currentUser' = v.cache
            /\ sessionStore' = v.store
            /\ result' = IF accessDenied(cur)
                         THEN Ret("getAllUsers", <<>>, PermissionDenied, <<>>)
                         ELSE Ret("getAllUsers", <<>>, "ok",
                                  [i \in 1..Len(users) |-> redact(users[i].v)])
            /\ UNCHANGED <<users, usersStore, now, loadPc, storageFaulty, inFlight>>

(***************************************************************************)
(* Registry operations: addUser, updateUser, activateUser, deactivateUser, *)
(* changePassword.                                                         *)
(***************************************************************************)
\* the objects callers pass to addUser: with or without an active field
BaseUserData == { [username |-> u,
                   password |-> IF u = "admin" THEN "2977" ELSE "pw",
                   displayName |-> DisplayNameOf(u),
                   role |-> IF u = "admin" THEN "admin" ELSE "tecnico"] :
                  u \in Usernames }

AddUserInputs ==
    BaseUserData \cup { Spread(d, [active |-> FALSE]) : d \in BaseUserData }

\* the spread written last, so that the caller's fields win
newUserMut(userData) ==
    Spread([active |-> TRUE, createdAt |-> ISO(now)], userData)

\* { ...userData, active: true, createdAt: ... }
newUser(userData) ==
    Spread(userData, [active |-> TRUE, createdAt |-> ISO(now)])

AddUser(userData) ==
    IF MapHas(users, userData.username)
    THEN /\ result' = Ret("addUser", <<userData.username>>, DuplicateUser, <<>>)
         /\ UNCHANGED <<users, usersStore, currentUser, sessionStore, now, loadPc,
                        storageFaulty, inFlight>>
    ELSE \E written \in WriteOutcomes :
           LET m == MapSet(users, userData.username, newUser(userData))
           IN  /\ users' = m
               /\ usersStore' = saveUsers(m, written)
               /\ result' = Ret("addUser", <<userData.username>>, "ok",
                                <<userData, newUser(userData)>>)
               /\ UNCHANGED <<currentUser, sessionStore, now, loadPc, storageFaulty, inFlight>>

\* { ...user, ...updates, updatedAt: ... }
updatedUser(user, updates) ==
    Spread(Spread(user, updates), [updatedAt |-> ISO(now)])

\* updateUser(username, updates), reported as operation op with arguments arg
UpdateUserAs(op, arg, username, updates) ==
    IF ~MapHas(users, username)
    THEN /\ result' = Ret(op, arg, UserNotFound, <<>>)
         /\ UNCHANGED <<users, usersStore, currentUser, sessionStore, now, loadPc,
                        storageFaulty, inFlight>>
    ELSE \E written \in WriteOutcomes :
           LET u == updatedUser(MapGet(users, username)[1], updates)
               m == MapSet(users, username, u)
           IN  /\ users' = m
               /\ usersStore' = saveUsers(m, written)
               /\ result' = Ret(op, arg, "ok", <<u>>)
               /\ UNCHANGED <<currentUser, sessionStore, now, loadPc, storageFaulty, inFlight>>

\* the patches callers pass to updateUser
RenamePatches == { [username |-> u] : u \in Usernames }

Patches ==
    RenamePatches \cup
    { [role |-> r] : r \in Roles } \cup
    { [password |-> p] : p \in Passwords }

UpdateUser(username, updates) ==
    UpdateUserAs("updateUser", <<username>>, username, updates)

\* a deactivateUser that also revokes the session
DeactivateUserRevoking(username) ==
    IF ~MapHas(users, username)
    THEN /\ result' = Ret("deactivateUser", <<username>>, UserNotFound, <<>>)
         /\ UNCHANGED <<users, usersStore, currentUser, sessionStore, now, loadPc,
                        storageFaulty, inFlight>>
    ELSE LET u == updatedUser(MapGet(users, username)[1], [active |-> FALSE])
             m == MapSet(users, username, u)
         IN  /\ users' = m
             /\ usersStore' = saveUsers(m, TRUE)
             /\ currentUser' = logout.cache
             /\ sessionStore' = logout.store
             /\ result' = Ret("deactivateUser", <<username>>, "ok", <<u>>)
             /\ UNCHANGED <<now, loadPc, storageFaulty, inFlight>>

\* a deactivateUser that deletes the record instead of flagging it
DeactivateUserMut(username) ==
    /\ users' = SelectSeq(users, LAMBDA e : e.k # username)
    /\ usersStore' = saveUsers(users', TRUE)
    /\ result' = Ret("deactivateUser", <<username>>,
                     IF MapHas(users, username) THEN "ok" ELSE UserNotFound, <<>>)
    /\ UNCHANGED <<currentUser, sessionStore, now, loadPc, storageFaulty, inFlight>>

DeactivateUser(username) ==
    UpdateUserAs("deactivateUser", <<username>>, username, [active |-> FALSE])

ActivateUser(username) ==
    UpdateUserAs("activateUser", <<username>>, username, [active |-> TRUE])

\* a changePassword that does not compare the old password
ChangePasswordMut(username, oldPassword, newPassword) ==
    UpdateUserAs("changePassword", <<username, oldPassword, newPassword>>,
                 username, [password |-> newPassword])

ChangePassword(username, oldPassword, newPassword) ==
    LET user == MapGet(users, username)
        arg == <<username, oldPassword, newPassword>>
    IN  IF user = <<>>
        THEN /\ result' = Ret("changePassword", arg, UserNotFound, <<>>)
             /\ UNCHANGED <<users, usersStore, currentUser, sessionStore, now,
                            loadPc, storageFaulty, inFlight>>
        ELSE IF Get(user[1], "password") # oldPassword
        THEN /\ result' = Ret("changePassword", arg, WrongCurrentPassword, <<>>)
             /\ UNCHANGED <<users, usersStore, currentUser, sessionStore, now,
                            loadPc, storageFaulty, inFlight>>
        ELSE UpdateUserAs("changePassword", arg, username, [password |-> newPassword])

(***************************************************************************)
(* The clock.                                                              *)
(***************************************************************************)
Tick ==
    /\ now < MaxTicks * TickStep
    /\ now' = now + TickStep
    /\ result' = Ret("tick", <<>>, "done", <<>>)
    /\ UNCHANGED <<users, usersStore, currentUser, sessionStore, loadPc, storageFaulty, inFlight>>

(***************************************************************************)
(* The specification.                                                      *)
(***************************************************************************)
\* a record as an earlier run of the program persisted it
StoredUser(u, r) ==
    [username |-> u, password |-> IF u = "admin" THEN "2977" ELSE "pw",
     displayName |-> DisplayNameOf(u), role |-> r, active |-> TRUE,
     createdAt |-> ISO(0)]

\* what 'smirt_users' can hold when the page is opened
InitialUsersStores ==
    { <<>>, <<EmptyText>>, <<CorruptText>>, <<NullText>>,
      <<JSONStringify(<<>>)>>,
      <<JSONStringify(<<StoredUser("admin", "admin")>>)>>,
      <<JSONStringify(<<StoredUser("mario", "tecnico"), StoredUser("admin", "admin")>>)>>,
      <<JSONStringify(<<StoredUser("admin", "admin"), JsNull>>)>> }

InitCommon ==
    /\ users = <<>>
    /\ currentUser = <<>>
    /\ usersStore \in InitialUsersStores
    /\ sessionStore = <<>>
    /\ now = 0
    /\ loadPc = "idle"
    /\ sessionRead = <<>>
    /\ window = <<>>
    /\ requests = <<>>
    /\ result = Ret("constructor", <<>>, "done", <<>>)

Init == InitCommon /\ storageFaulty = FALSE

Next ==
    \/ LoadUsersCall
    \/ \E outcome \in {"reject", "notok", "ok"} : LoadUsersFetched(outcome)
    \/ \E rejected \in BOOLEAN, body \in BootstrapBodies : LoadUsersBody(rejected, body)
    \/ SaveUsers
    \/ \E u \in Usernames, p \in Passwords : Authenticate(u, p)
    \/ IsSessionValid
    \/ GetCurrentUser
    \/ Logout
    \/ \E r \in Roles : HasRole(r)
    \/ IsAdmin
    \/ CleanupSessions
    \/ GetAllUsers
    \/ \E d \in AddUserInputs : AddUser(d)
    \/ \E u \in Usernames, patch \in Patches : UpdateUser(u, patch)
    \/ \E u \in Usernames : DeactivateUser(u)
    \/ \E u \in Usernames : ActivateUser(u)
    \/ \E u \in Usernames, old \in Passwords, new \in Passwords : ChangePassword(u, old, new)
    \/ Tick

Spec == Init /\ [][Next]_vars

(***************************************************************************)
(* Two views of the program, each closed under an interleaving of the      *)
(* operations it contains: the registry and its persistence, and the       *)
(* session with the clock.                                                 *)
(***************************************************************************)
LoadUsers ==
    \/ LoadUsersCall
    \/ \E outcome \in {"reject", "notok", "ok"} : LoadUsersFetched(outcome)
    \/ \E rejected \in BOOLEAN, body \in BootstrapBodies : LoadUsersBody(rejected, body)

NextRegistry ==
    \/ LoadUsers
    \/ SaveUsers
    \/ \E d \in AddUserInputs : AddUser(d)
    \/ \E u \in Usernames, patch \in RenamePatches : UpdateUser(u, patch)
    \/ \E u \in Usernames : DeactivateUser(u)
    \/ \E u \in Usernames : ActivateUser(u)
    \/ \E u \in Usernames, old \in Passwords, new \in Passwords : ChangePassword(u, old, new)

SpecRegistry == Init /\ [][NextRegistry]_vars

\* the session view loads the registry through the fallback path of loadUsers
\* only; the bootstrap path belongs to the registry view
NextSession ==
    \/ LoadUsersCall
    \/ \E outcome \in {"reject", "notok"} : LoadUsersFetched(outcome)
    \/ \E u \in Usernames, p \in Passwords : Authenticate(u, p)
    \/ IsSessionValid
    \/ GetCurrentUser
    \/ Logout
    \/ \E r \in Roles : HasRole(r)
    \/ IsAdmin
    \/ CleanupSessions
    \/ GetAllUsers
    \/ \E u \in Usernames : DeactivateUser(u)
    \/ \E u \in Usernames : ActivateUser(u)
    \/ Tick

SpecSession == Init /\ [][NextSession]_vars

(***************************************************************************)
(* Properties.                                                             *)
(***************************************************************************)
\* the record stored under a key of the registry
RecordOf(m, key) == (CHOOSE e \in {m[i] : i \in 1..Len(m)} : e.k = key).v

AuthFailures == {UserNotFound, UserInactive, InvalidCredential}

\* C1: authenticate classifies an attempt in a fixed precedence: UserNotFound
\* iff the username is not in the registry; else UserInactive iff the record
\* is not active, whatever the password; else InvalidCredential iff the
\* password differs from the stored one; else success.  Every failure is a
\* returned value.
C1_AuthenticatePrecedence ==
    result.op = "authenticate" =>
        LET u == result.arg[1]
            p == result.arg[2]
            present == u \in MapKeys(users)
        IN  /\ result.ret \in AuthFailures \cup {"ok"}
            /\ (result.ret = UserNotFound) <=> ~present
            /\ (result.ret = UserInactive) <=>
                   (present /\ RecordOf(users, u).active = FALSE)
            /\ (result.ret = InvalidCredential) <=>
                   (present /\ RecordOf(users, u).active = TRUE
                            /\ RecordOf(users, u).password # p)
            /\ (result.ret = "ok") <=>
                   (present /\ RecordOf(users, u).active = TRUE
                            /\ RecordOf(users, u).password = p)
            /\ result.ret \in AuthFailures => result.val = <<>>

\* C1 witness: an inactive user authenticating with a wrong password was
\* answered UserInactive
C1_Witness ==
    /\ result.op = "authenticate"
    /\ result.ret = UserInactive
    /\ result.arg[1] \in MapKeys(users)
    /\ RecordOf(users, result.arg[1]).password # result.arg[2]

\* C2: a failed authenticate leaves the cached and the persisted session as
\* they were, so getCurrentUser() answers afterwards what it answered before
C2_FailedAuthenticateKeepsSession ==
    [][(result'.op = "authenticate" /\ result'.ret \in AuthFailures) =>
          /\ currentUser' = currentUser
          /\ sessionStore' = sessionStore
          /\ getCurrentUser(isSessionValid(TRUE))' = getCurrentUser(isSessionValid(TRUE))
      ]_vars

\* C2 witness: a wrong password was refused while another user's session
\* is the current one
C2_Witness ==
    /\ result.op = "authenticate"
    /\ result.ret = InvalidCredential
    /\ sessionStore # <<>>
    /\ currentUser = sessionStore
    /\ sessionStore[1].username # result.arg[1]
    /\ sessionStore[1].expiresAt > now

\* a persisted session that the code accepts at the current time
SessionAccepted == sessionStore # <<>> /\ sessionStore[1].expiresAt >= now

\* C3: getAllUsers answers PermissionDenied unless a persisted session that
\* has not expired carries the role "admin"; when it succeeds it returns one
\* entry per registry record, none with a password field
C3_GetAllUsersAdminOnly ==
    [][result'.op = "getAllUsers" =>
          LET admitted == SessionAccepted /\ sessionStore[1].role = "admin"
              list == result'.val
          IN  /\ result'.ret = IF admitted THEN "ok" ELSE PermissionDenied
              /\ ~admitted => list = <<>>
              /\ admitted =>
                   /\ Len(list) = Len(users)
                   /\ \A i \in 1..Len(list) :
                        /\ "password" \notin DOMAIN list[i]
                        /\ list[i].username = users[i].v.username
                        /\ list[i].role = users[i].v.role
                        /\ list[i].active = users[i].v.active
      ]_vars

\* C3 witness: an administrator was given the list of a registry of two
\* records
C3_Witness ==
    /\ result.op = "getAllUsers"
    /\ result.ret = "ok"
    /\ Len(result.val) = 2
    /\ Len(users) = 2

\* C4 (as stated): isSessionValid reports valid iff a persisted session
\* exists and its expiresAt is strictly greater than the current time
C4_ValidIffStrictlyLater ==
    [][result'.op = "isSessionValid" =>
          ((result'.ret = "true") <=>
               (sessionStore # <<>> /\ sessionStore[1].expiresAt > now))
      ]_vars

\* C4 (amended): isSessionValid reports valid iff a persisted session exists
\* and its expiresAt is greater than or equal to the current time: a session
\* checked at the instant now = expiresAt is valid, and is extended
C4_ValidIffNotEarlier ==
    [][result'.op = "isSessionValid" =>
          /\ (result'.ret = "true") <=>
                 (sessionStore # <<>> /\ sessionStore[1].expiresAt >= now)
          /\ (sessionStore # <<>> /\ sessionStore[1].expiresAt = now) =>
                 (sessionStore' # <<>> /\ sessionStore'[1].expiresAt > now)
      ]_vars

\* C4 witness: a session read at the instant now = expiresAt was reported
\* valid
C4_Witness ==
    /\ result.op = "isSessionValid"
    /\ result.ret = "true"
    /\ result.val # <<>>
    /\ result.val[1].expiresAt = now

\* C5: isSessionValid on a persisted session whose expiresAt lies in the past
\* answers invalid and clears the persisted entry and the cache; from then on
\* getCurrentUser answers null, and the entry stays absent, until an
\* authenticate succeeds
C5_ExpiryClearsSession ==
    [][/\ (result'.op = "isSessionValid" /\ sessionStore # <<>>
              /\ sessionStore[1].expiresAt < now) =>
            (result'.ret = "false" /\ sessionStore' = <<>> /\ currentUser' = <<>>)
       /\ (result'.op = "getCurrentUser" /\ sessionStore = <<>>) =>
            (result'.ret = "null" /\ result'.val = <<>>)
       /\ (sessionStore = <<>> /\ sessionStore' # <<>>) =>
            (result'.op = "authenticate" /\ result'.ret = "ok")
      ]_vars

\* C5 witness: an expired session that was cached has just been cleared by
\* isSessionValid
C5_Witness ==
    /\ result.op = "isSessionValid"
    /\ result.ret = "false"
    /\ result.val # <<>>
    /\ result.val[1].expiresAt < now
    /\ sessionStore = <<>>
    /\ currentUser = <<>>

SessionReads == {"isSessionValid", "getCurrentUser", "hasRole", "isAdmin", "getAllUsers"}

\* C6: every validation that reports valid sets expiresAt, persisted and
\* cached, to now + 24 hours; over isSessionValid, getCurrentUser, hasRole,
\* isAdmin and getAllUsers calls and the passing of time the expiresAt of
\* the session never decreases
C6_SlidingExpiration ==
    [][/\ result'.op \in SessionReads =>
            /\ (result'.ret \in {"true", "session", "ok"}) => sessionStore' # <<>>
            /\ sessionStore' # <<>> =>
                 /\ sessionStore'[1].expiresAt = now + 24 * 60 * 60 * 1000
                 /\ currentUser' = sessionStore'
                 /\ sessionStore # <<>>
                 /\ sessionStore'[1].expiresAt >= sessionStore[1].expiresAt
                 /\ sessionStore'[1].loginTime = sessionStore[1].loginTime
       /\ result'.op = "tick" => (now' >= now /\ sessionStore' = sessionStore)
      ]_vars

\* C6 witness: a second validation, later than the first, moved expiresAt
\* further ahead
C6_Witness ==
    /\ result.op = "isSessionValid"
    /\ result.ret = "true"
    /\ result.val # <<>>
    /\ result.val[1].expiresAt > result.val[1].loginTime + sessionDuration
    /\ sessionStore[1].expiresAt > result.val[1].expiresAt

\* loadUsers() has completed
LoadDone == result.op = "loadUsers" /\ result.ret = "done"

\* C7: whatever the bootstrap fetch gave and whatever the persisted store
\* held, the registry contains at least one user when loadUsers() completes
C7_LoadLeavesAUser == LoadDone => Len(users) >= 1

\* the ways loadUsers falls back to the persisted snapshot
FetchFailures == {"reject", "notok", "malformed", "typeerror"}

\* the persisted snapshot is absent, an empty list, or does not parse
SnapshotUnusable(entry) ==
    \/ entry = <<>>
    \/ entry[1].kind \in {"corrupt", "empty"}
    \/ (entry[1].kind = "array" /\ entry[1].items = <<>>)

\* C8: when the bootstrap fetch fails and the persisted snapshot is absent,
\* an empty list or unparseable, loadUsers leaves exactly one user, "admin",
\* with role "admin" and active, and persists that registry
C8_DefaultSeeding ==
    [][(result'.op = "loadUsers" /\ result'.arg[1] \in FetchFailures
           /\ SnapshotUnusable(usersStore)) =>
          /\ Len(users') = 1
          /\ users'[1].k = "admin"
          /\ users'[1].v.username = "admin"
          /\ users'[1].v.role = "admin"
          /\ users'[1].v.active = TRUE
          /\ usersStore' # <<>>
          /\ usersStore'[1].kind = "array"
          /\ usersStore'[1].items = <<users'[1].v>>
      ]_vars

\* C8 witness: the fetch was rejected, the snapshot did not parse, and the
\* default administrator was seeded and persisted
C8_Witness ==
    /\ LoadDone
    /\ result.arg = <<"reject", "Errore caricamento utenti">>
    /\ Len(users) = 1
    /\ users[1].k = "admin"
    /\ usersStore = <<JSONStringify(<<users[1].v>>)>>

\* C9: addUser with a username already in the registry answers DuplicateUser
\* and leaves the registry and the persisted snapshot unchanged; with a new
\* username it inserts exactly one record, active whatever the input says
C9_AddUser ==
    [][result'.op = "addUser" =>
          LET u == result'.arg[1]
          IN  IF u \in MapKeys(users)
              THEN /\ result'.ret = DuplicateUser
                   /\ users' = users
                   /\ usersStore' = usersStore
              ELSE /\ result'.ret = "ok"
                   /\ Len(users') = Len(users) + 1
                   /\ \A i \in 1..Len(users) : users'[i] = users[i]
                   /\ users'[Len(users')].k = u
                   /\ users'[Len(users')].v.username = u
                   /\ users'[Len(users')].v.active = TRUE
      ]_vars

\* C9 witness: a user passed with active: false was inserted as active, next
\* to a record that was there before
C9_Witness ==
    /\ result.op = "addUser"
    /\ result.ret = "ok"
    /\ "active" \in DOMAIN result.val[1]
    /\ result.val[1].active = FALSE
    /\ Len(users) = 2
    /\ users[2].k = result.arg[1]
    /\ users[2].v.active = TRUE

\* the records of a registry, as a set
Records(m) == {m[i].v : i \in 1..Len(m)}

\* C10: saveUsers() followed by loadUsers() with the bootstrap source
\* unreachable reproduces the same user records: the same usernames, the same
\* number of records, the same field values (stated for the registries
\* loadUsers is specified to leave, those with at least one user)
C10_SaveLoadRoundTrip ==
    [][(/\ result'.op = "loadUsers"
        /\ result'.arg[1] \in {"reject", "notok", "malformed"}
        /\ result.op \in {"loadUsers.call", "loadUsers.fetched"}
        /\ result.arg = <<"saveUsers">>
        /\ Len(users) >= 1) =>
          /\ Len(users') = Len(users)
          /\ MapKeys(users') = MapKeys(users)
          /\ Records(users') = Records(users)
      ]_vars

\* C11: username is a unique, immutable key: every record's username field
\* equals the key it is stored under, and no two records carry the same
\* username
C11_UsernameIsKey ==
    /\ \A i \in 1..Len(users) : users[i].v.username = users[i].k
    /\ \A i, j \in 1..Len(users) :
           users[i].v.username = users[j].v.username => i = j


\* the registry operations, authentication and logout over a small registry,
\* with one bootstrap document that lists the administrator only
InitPresence ==
    /\ InitCommon
    /\ storageFaulty = FALSE
    /\ usersStore \in {<<>>,
                       <<JSONStringify(<<StoredUser("mario", "tecnico"),
                                         StoredUser("admin", "admin")>>)>>}

AdminOnlyBody == Body("users", <<Entry("admin", UserData("admin", "admin"))>>)

NextPresence ==
    \/ LoadUsersCall
    \/ \E outcome \in {"reject", "ok"} : LoadUsersFetched(outcome)
    \/ LoadUsersBody(FALSE, AdminOnlyBody)
    \/ SaveUsers
    \/ \E d \in BaseUserData : AddUser(d)
    \/ \E u \in Usernames : UpdateUser(u, [role |-> "admin"])
    \/ \E u \in Usernames : DeactivateUser(u)
    \/ \E u \in Usernames : ActivateUser(u)
    \/ \E u \in Usernames, new \in Passwords : ChangePassword(u, "pw", new)
    \/ \E u \in Usernames : Authenticate(u, "pw")
    \/ Logout

SpecPresence == InitPresence /\ [][NextPresence]_vars

\* C12 as stated: once a username is present in the registry it stays present
\* across every operation, loadUsers included
C12_NeverHardDeleted ==
    [][MapKeys(users) \subseteq MapKeys(users')]_vars

\* C12: every operation other than the completion of loadUsers keeps every
\* present username present (addUser, updateUser, activateUser,
\* deactivateUser, changePassword, authenticate, logout, saveUsers), and a
\* deactivated user stays in the registry with active = false; loadUsers
\* replaces the registry by what its source lists
C12_OnlyLoadDropsUsers ==
    [][/\ result'.op # "loadUsers" => MapKeys(users) \subseteq MapKeys(users')
       /\ (result'.op = "deactivateUser" /\ result'.ret = "ok") =>
             /\ MapHas(users', result'.arg[1])
             /\ Get(MapGet(users', result'.arg[1])[1], "active") = FALSE
      ]_vars

C12_Witness ==
    /\ result.op = "deactivateUser"
    /\ result.ret = "ok"
    /\ result.arg = <<"mario">>
    /\ MapKeys(users) = {"admin", "mario"}
    /\ Get(MapGet(users, "mario")[1], "active") = FALSE


\* C13: a successful authenticate, whatever session there was, leaves exactly
\* one session, the same in the cache and in storage, made from the record of
\* the authenticated user (its username, displayName and role), issued now and
\* expiring 24 hours from now; it is the value authenticate returns and the
\* value getCurrentUser() returns immediately afterwards
C13_SingleSessionSlot ==
    [][(result'.op = "authenticate" /\ result'.ret = "ok") =>
          LET rec == MapGet(users, result'.arg[1])[1]
              s == currentUser'[1]
          IN  /\ Len(currentUser') = 1
              /\ sessionStore' = currentUser'
              /\ result'.val = currentUser'
              /\ s.username = Get(rec, "username")
              /\ s.displayName = Get(rec, "displayName")
              /\ s.role = Get(rec, "role")
              /\ s.loginTime = now
              /\ s.expiresAt = now + 24 * 60 * 60 * 1000
              /\ (getCurrentUser(isSessionValid(TRUE)))' = currentUser'
      ]_vars

C13_Witness ==
    /\ result.op = "authenticate"
    /\ result.ret = "ok"
    /\ result.arg[1] = "mario"
    /\ now > 0
    /\ currentUser = sessionStore
    /\ Len(currentUser) = 1
    /\ currentUser[1].username = "mario"
    /\ currentUser[1].loginTime = now


\* C14: changePassword(username, oldPassword, newPassword) fails with 'Utente
\* non trovato' for an unknown user and with its invalid-credential failure
\* ('Password attuale errata') when oldPassword differs from the stored
\* password, the registry and its snapshot unchanged in both cases; when it
\* succeeds the record's password is newPassword, only password and updatedAt
\* differ from before and every other record is untouched, so that for an
\* active user with oldPassword # newPassword authenticate would succeed with
\* newPassword and fail with 'Password errata' for oldPassword
C14_ChangePassword ==
    [][\A u \in Usernames, old \in Passwords, new \in Passwords :
          (result'.op = "changePassword" /\ result'.arg = <<u, old, new>>) =>
              /\ result'.ret \in {UserNotFound, WrongCurrentPassword, "ok"}
              /\ result'.ret = UserNotFound <=> ~MapHas(users, u)
              /\ result'.ret = WrongCurrentPassword <=>
                     /\ MapHas(users, u)
                     /\ Get(MapGet(users, u)[1], "password") # old
              /\ result'.ret # "ok" => users' = users /\ usersStore' = usersStore
              /\ result'.ret = "ok" =>
                     LET before == MapGet(users, u)[1]
                         after == MapGet(users', u)[1]
                     IN  /\ Get(after, "password") = new
                         /\ DOMAIN after = DOMAIN before \cup {"updatedAt"}
                         /\ \A f \in DOMAIN before \ {"password", "updatedAt"} :
                                after[f] = before[f]
                         /\ Len(users') = Len(users)
                         /\ \A i \in 1..Len(users) :
                                /\ users'[i].k = users[i].k
                                /\ users[i].k # u => users'[i].v = users[i].v
                         /\ (~NotActive(before) /\ old # new) =>
                                /\ (authenticateOutcome(u, new))' = "ok"
                                /\ (authenticateOutcome(u, old))' = InvalidCredential
      ]_vars

C14_Witness ==
    /\ result.op = "changePassword"
    /\ result.ret = "ok"
    /\ result.arg = <<"mario", "pw", "2977">>
    /\ MapHas(users, "mario")
    /\ Get(MapGet(users, "mario")[1], "password") = "2977"
    /\ Get(MapGet(users, "mario")[1], "active") = TRUE
    /\ Len(users) = 2


\* the core operations over a storage whose writes may fail (quota exceeded,
\* storage disabled): every setItem either succeeds or throws
InitFaulty ==
    /\ InitCommon
    /\ storageFaulty = TRUE
    /\ usersStore \in {<<>>, <<CorruptText>>,
                       <<JSONStringify(<<StoredUser("mario", "tecnico")>>)>>}

NextFaulty ==
    \/ LoadUsersCall
    \/ \E outcome \in {"reject", "ok"} : LoadUsersFetched(outcome)
    \/ LoadUsersBody(FALSE, AdminOnlyBody)
    \/ SaveUsers
    \/ \E d \in BaseUserData : AddUser(d)
    \/ \E u \in Usernames : UpdateUser(u, [role |-> "admin"])
    \/ \E u \in Usernames, p \in Passwords : Authenticate(u, p)
    \/ IsSessionValid

SpecFaulty == InitFaulty /\ [][NextFaulty]_vars

\* C15: a write to persistent storage that fails during a core operation is
\* never propagated to the caller: no call ends by throwing
C15_WriteFailuresAbsorbed == result.ret # "throws"


\* one process over time: the bootstrap load, the registry operations on one
\* user, and the session operations
InitFrame ==
    /\ InitCommon
    /\ storageFaulty = FALSE
    /\ usersStore = <<>>

BothUsersBody ==
    Body("users", <<Entry("admin", UserData("admin", "admin")),
                    Entry("mario", UserData("mario", "tecnico"))>>)

NextFrame ==
    \/ LoadUsersCall
    \/ LoadUsersFetched("ok")
    \/ LoadUsersBody(FALSE, BothUsersBody)
    \/ AddUser(CHOOSE d \in BaseUserData : d.username = "mario")
    \/ UpdateUser("mario", [role |-> "admin"])
    \/ DeactivateUser("mario")
    \/ ChangePassword("mario", "pw", "2977")
    \/ \E u \in Usernames : Authenticate(u, IF u = "admin" THEN "2977" ELSE "pw")
    \/ IsSessionValid
    \/ Logout
    \/ Tick

SpecFrame == InitFrame /\ [][NextFrame]_vars

\* the calls that work on the registry and never on the session
RegistryOps ==
    {"addUser", "updateUser", "deactivateUser", "activateUser", "changePassword",
     "saveUsers", "loadUsers.call", "loadUsers.fetched", "loadUsers"}

\* C16: registry operations (addUser, updateUser, deactivateUser,
\* changePassword, loadUsers) and the passing of time leave the cached and
\* the persisted session exactly as they were; a validation that succeeds
\* changes only expiresAt; whenever a session is there before and after a
\* step that is not a successful authenticate, its username, displayName,
\* role and loginTime are unchanged
C16_SessionFrame ==
    [][/\ result'.op \in RegistryOps \cup {"tick"} =>
             /\ currentUser' = currentUser
             /\ sessionStore' = sessionStore
       /\ (result'.op = "isSessionValid" /\ result'.ret = "true") =>
             /\ sessionStore # <<>>
             /\ sessionStore' =
                    <<[sessionStore[1] EXCEPT
                          !.expiresAt = sessionStore'[1].expiresAt]>>
             /\ currentUser' = sessionStore'
       /\ (/\ sessionStore # <<>>
           /\ sessionStore' # <<>>
           /\ ~(result'.op = "authenticate" /\ result'.ret = "ok")) =>
             /\ sessionStore'[1].username = sessionStore[1].username
             /\ sessionStore'[1].displayName = sessionStore[1].displayName
             /\ sessionStore'[1].role = sessionStore[1].role
             /\ sessionStore'[1].loginTime = sessionStore[1].loginTime
      ]_vars

\* C16 witness: mario, logged in as "tecnico" at an earlier time, has since
\* been deactivated, and the session is still there as issued
C16_Witness ==
    /\ result.op = "deactivateUser"
    /\ result.ret = "ok"
    /\ result.arg = <<"mario">>
    /\ Len(sessionStore) = 1
    /\ currentUser = sessionStore
    /\ sessionStore[1].username = "mario"
    /\ sessionStore[1].role = "tecnico"
    /\ sessionStore[1].loginTime < now
    /\ Get(MapGet(users, "mario")[1], "role") = "admin"
    /\ (getCurrentUser(isSessionValid(TRUE))) = <<Extended(sessionStore[1])>>


\* C17: the steps of loadUsers that end suspended (at the await of fetch and
\* at the await of response.json()) change neither the registry nor its
\* snapshot; the step that completes loadUsers leaves the registry filled
\* from the whole of one source: every entry of a readable bootstrap mapping,
\* every record of the persisted snapshot, or the default users (also when an
\* entry of the bootstrap or of the snapshot is malformed); so a call
\* interleaved with loadUsers finds the registry as it was before the load
C17_LoadIsAtomic ==
    [][/\ result'.op \in {"loadUsers.call", "loadUsers.fetched"} =>
             /\ loadPc' \in {"fetch", "json"}
             /\ users' = users
             /\ usersStore' = usersStore
       /\ (loadPc \in {"fetch", "json"} /\ result'.op \notin
               {"loadUsers.call", "loadUsers.fetched", "loadUsers"}) =>
             loadPc' = loadPc
       /\ result'.op = "loadUsers" =>
             /\ loadPc' = "idle"
             /\ IF result'.arg[1] = "bootstrap"
                THEN \E body \in BootstrapBodies :
                        /\ \A i \in 1..Len(body.entries) :
                               ~IsNull(body.entries[i].data)
                        /\ users' = SetEntries(<<>>, body.entries)
                ELSE \/ users' = SetEach(<<>>, defaultUsers)
                     \/ /\ usersStore # <<>>
                        /\ usersStore[1].kind = "array"
                        /\ users' = SetEach(<<>>, usersStore[1].items)
                        /\ Len(users') >= 1
      ]_vars

\* C17 witness: while loadUsers awaits response.json(), an addUser call found
\* the registry as it was and added to it
C17_Witness ==
    /\ loadPc = "json"
    /\ result.op = "addUser"
    /\ result.ret = "ok"
    /\ Len(users) = 2


(***************************************************************************)
(* A second process (another tab) running the same program on the same     *)
(* localStorage: its authenticate, logout and isSessionValid calls, seen   *)
(* from this process, are writes to the shared session entry.  They can    *)
(* fall between the getItem and the setItem of a call of this process, so  *)
(* getCurrentUser() is taken in two steps here.                            *)
(***************************************************************************)
PeerAuthenticate(user) ==
    /\ sessionStore' = <<sessionData(user)>>
    /\ result' = Ret("peer.authenticate", <<user.username>>, "ok", <<>>)
    /\ UNCHANGED <<users, usersStore, currentUser, now, loadPc, storageFaulty, inFlight>>

PeerLogout ==
    /\ sessionStore' = logout.store
    /\ result' = Ret("peer.logout", <<>>, "done", <<>>)
    /\ UNCHANGED <<users, usersStore, currentUser, now, loadPc, storageFaulty, inFlight>>

PeerIsSessionValid ==
    /\ sessionStore' = isSessionValid(TRUE).store
    /\ result' = Ret("peer.isSessionValid", <<>>, Bool(isSessionValid(TRUE).valid), <<>>)
    /\ UNCHANGED <<users, usersStore, currentUser, now, loadPc, storageFaulty, inFlight>>

\* isSessionValid() from the parsed entry on: the expiry test, then logout()
\* or the extension written back
validate(session) ==
    IF Expired(session)
    THEN [valid |-> FALSE, cache |-> logout.cache, store |-> logout.store]
    ELSE [valid |-> TRUE, cache |-> <<Extended(session)>>,
          store |-> <<Extended(session)>>]

\* getCurrentUser() up to localStorage.getItem: without an entry it returns
\* null at once
GetCurrentUserRead ==
    /\ sessionRead = <<>>
    /\ IF sessionStore = <<>>
       THEN LET v == [valid |-> FALSE, cache |-> currentUser, store |-> sessionStore]
                cur == getCurrentUser(v)
            IN  /\ result' = Ret("getCurrentUser", <<>>,
                                 IF cur = <<>> THEN "null" ELSE "session", cur)
                /\ UNCHANGED <<users, usersStore, currentUser, sessionStore, now,
                               loadPc, storageFaulty, inFlight>>
       ELSE /\ sessionRead' = sessionStore
            /\ result' = Ret("getCurrentUser.read", <<>>, "pending", <<>>)
            /\ UNCHANGED <<users, usersStore, currentUser, sessionStore, now,
                           loadPc, storageFaulty, window, requests>>

\* the rest of getCurrentUser(), working on the entry it read
GetCurrentUserReturn ==
    /\ sessionRead # <<>>
    /\ LET v == validate(sessionRead[1])
           cur == getCurrentUser(v)
       IN  /\ currentUser' = v.cache
           /\ sessionStore' = v.store
           /\ sessionRead' = <<>>
           /\ result' = Ret("getCurrentUser", <<>>,
                            IF cur = <<>> THEN "null" ELSE "session", cur)
           /\ UNCHANGED <<users, usersStore, now, loadPc, storageFaulty, window,
                          requests>>

InitShared ==
    /\ InitCommon
    /\ storageFaulty = FALSE
    /\ usersStore = <<JSONStringify(<<StoredUser("mario", "tecnico"),
                                      StoredUser("admin", "admin")>>)>>

\* the calls of this process, one at a time
NextSharedOwn ==
    \/ LoadUsersCall
    \/ LoadUsersFetched("reject")
    \/ \E u \in Usernames : Authenticate(u, IF u = "admin" THEN "2977" ELSE "pw")
    \/ IsSessionValid
    \/ Logout
    \/ Tick

NextShared ==
    \/ sessionRead = <<>> /\ NextSharedOwn
    \/ GetCurrentUserRead
    \/ GetCurrentUserReturn
    \/ \E d \in BaseUserData : PeerAuthenticate(d)
    \/ PeerLogout
    \/ PeerIsSessionValid

SpecShared == InitShared /\ [][NextShared]_vars

\* C18: with a second process writing the same storage, getCurrentUser()
\* returns null when it finds no persisted session entry and when the entry
\* it read has expired (now > expiresAt), whatever this process's cache
\* holds; whenever it returns a session, that session is unexpired, it is the
\* one persisted in storage when the call returns, and it is the entry the
\* call read with only expiresAt moved
C18_StorageDecidesValidity ==
    [][/\ (result'.op = "getCurrentUser" /\ sessionRead = <<>>) =>
             /\ sessionStore = <<>>
             /\ result'.ret = "null"
             /\ result'.val = <<>>
       /\ result'.op = "getCurrentUser.read" =>
             /\ sessionStore # <<>>
             /\ sessionRead' = sessionStore
             /\ sessionStore' = sessionStore
             /\ currentUser' = currentUser
       /\ (result'.op = "getCurrentUser" /\ sessionRead # <<>>) =>
             IF now > sessionRead[1].expiresAt
             THEN /\ result'.ret = "null"
                  /\ result'.val = <<>>
                  /\ sessionStore' = <<>>
             ELSE /\ result'.ret = "session"
                  /\ result'.val = <<[sessionRead[1] EXCEPT
                                         !.expiresAt = now + 24 * 60 * 60 * 1000]>>
       /\ (result'.op = "getCurrentUser" /\ result'.ret # "null") =>
             /\ result'.ret = "session"
             /\ Len(result'.val) = 1
             /\ result'.val = sessionStore'
             /\ result'.val[1].expiresAt > now
      ]_vars

\* C18 witness: getCurrentUser() returned null although this process's cache
\* still holds the unexpired session it issued, the other process having
\* logged out
C18_Witness ==
    /\ result.op = "getCurrentUser"
    /\ result.ret = "null"
    /\ sessionStore = <<>>
    /\ currentUser # <<>>
    /\ currentUser[1].expiresAt > now


\* the persisted snapshot holds exactly the records of the registry
SnapshotAgrees == usersStore = <<JSONStringify(MapValues(users))>>

\* C19: with one process and no failing write, the persisted snapshot holds
\* exactly the records of the registry when loadUsers completes, and every
\* addUser, updateUser, activateUser, deactivateUser or changePassword,
\* successful or failed, made when they agree leaves them in agreement
C19_RegistryMatchesStorage ==
    [][/\ result'.op = "loadUsers" => SnapshotAgrees'
       /\ (/\ result'.op \in {"addUser", "updateUser", "activateUser",
                              "deactivateUser", "changePassword"}
           /\ SnapshotAgrees) => SnapshotAgrees'
      ]_vars


(***************************************************************************)
(* SMIRTUtils.createJSONPRequest: each call installs a callback as a       *)
(* property of window, attaches a script element and arms a timer; the     *)
(* script's response, its error event and the timer then run in any order. *)
(***************************************************************************)
\* the requests that can be made
MaxRequests == 2

\* the default of the timeout parameter, in milliseconds
timeout == 30000

\* 'jsonpCallback' + Date.now()
callbackName(t) == "jsonpCallback" \o ToString(t)

\* delete window[name]
MapDelete(m, key) == SelectSeq(m, LAMBDA e : e.k # key)

\* resolve(response) and reject(error) of a promise: the first one settles it
Resolve(r, response) ==
    IF r.state = "pending"
    THEN [r EXCEPT !.state = "resolved", !.value = <<response>>]
    ELSE r

Reject(r) == IF r.state = "pending" THEN [r EXCEPT !.state = "rejected"] ELSE r

\* clearTimeout(timeoutId): a timer that has not fired will not fire
ClearTimeout(r) == IF r.timer = "armed" THEN [r EXCEPT !.timer = "cleared"] ELSE r

\* document.head.removeChild(script)
RemoveScript(r) == [r EXCEPT !.script = "removed"]

\* the executor of the promise, run synchronously by the call
CreateJSONPRequest ==
    /\ Len(requests) < MaxRequests
    /\ LET id == Len(requests) + 1
           name == callbackName(now)
       IN  /\ window' = MapSet(window, name, id)
           /\ requests' = Append(requests,
                                 [name |-> name, created |-> now,
                                  state |-> "pending", value |-> <<>>,
                                  timer |-> "armed", script |-> "attached",
                                  net |-> "waiting"])
           /\ result' = Ret("createJSONPRequest", <<name>>, "promise", <<id>>)
    /\ UNCHANGED <<users, currentUser, usersStore, sessionStore, now, loadPc,
                   storageFaulty, sessionRead>>

\* the response to request i arrives: its script calls window[name](response),
\* which runs the callback installed under that name, if there is one
ScriptLoads(i) ==
    /\ i \in 1..Len(requests)
    /\ requests[i].net = "waiting"
    /\ LET name == requests[i].name
           arrived == [requests EXCEPT ![i].net = "loaded"]
       IN  IF ~MapHas(window, name)
           THEN /\ requests' = arrived
                /\ window' = window
           ELSE LET j == MapGet(window, name)[1]
                IN  /\ requests' =
                           [arrived EXCEPT
                               ![j] = Resolve(RemoveScript(ClearTimeout(arrived[j])), i)]
                    /\ window' = MapDelete(window, name)
    /\ result' = Ret("jsonp.response", <<i>>, "done", <<>>)
    /\ UNCHANGED <<users, currentUser, usersStore, sessionStore, now, loadPc,
                   storageFaulty, sessionRead>>

\* script.onerror of request i
ScriptError(i) ==
    /\ i \in 1..Len(requests)
    /\ requests[i].net = "waiting"
    /\ requests' =
           [requests EXCEPT
               ![i] = Reject(RemoveScript(ClearTimeout(
                          [requests[i] EXCEPT !.net = "failed"])))]
    /\ window' = MapDelete(window, requests[i].name)
    /\ result' = Ret("jsonp.error", <<i>>, "done", <<>>)
    /\ UNCHANGED <<users, currentUser, usersStore, sessionStore, now, loadPc,
                   storageFaulty, sessionRead>>

\* the setTimeout callback of request i
TimerFires(i) ==
    /\ i \in 1..Len(requests)
    /\ requests[i].timer = "armed"
    /\ now >= requests[i].created + timeout
    /\ LET fired == [requests EXCEPT ![i].timer = "fired"]
       IN  IF MapHas(window, requests[i].name)
           THEN /\ window' = MapDelete(window, requests[i].name)
                /\ requests' = [fired EXCEPT ![i] = Reject(RemoveScript(fired[i]))]
           ELSE /\ window' = window
                /\ requests' = fired
    /\ result' = Ret("jsonp.timeout", <<i>>, "done", <<>>)
    /\ UNCHANGED <<users, currentUser, usersStore, sessionStore, now, loadPc,
                   storageFaulty, sessionRead>>

InitJsonp ==
    /\ InitCommon
    /\ storageFaulty = FALSE
    /\ usersStore = <<>>

NextJsonp ==
    \/ CreateJSONPRequest
    \/ \E i \in 1..MaxRequests : ScriptLoads(i)
    \/ \E i \in 1..MaxRequests : ScriptError(i)
    \/ \E i \in 1..MaxRequests : TimerFires(i)
    \/ Tick

SpecJsonp == InitJsonp /\ [][NextJsonp]_vars

\* C20: every request's promise is settled as its own: a resolved promise
\* holds the response to its own request, no promise is still pending once
\* its timer has fired, and a settled promise's callback is no longer
\* installed in window
C20_SettledOnceAsItsOwn ==
    \A i \in 1..Len(requests) :
        /\ requests[i].state = "resolved" => requests[i].value = <<i>>
        /\ requests[i].timer = "fired" => requests[i].state # "pending"
        /\ requests[i].state # "pending" => MapGet(window, requests[i].name) # <<i>>

====
